---- MODULE Spec2Model ----
(***************************************************************************)
(* walletscope: the transaction reconciliation and classification engine   *)
(* of src/walletscope.py as a state machine.                               *)
(*                                                                         *)
(* Python strings are sequences of one-character strings, so that lower(), *)
(* slicing and the substring test `x in s` are computed, not assumed.      *)
(* Optional[str] values are records [some, v]: None has some = FALSE.      *)
(* Python ints parsed from the feeds are canonical decimal numerals        *)
(* (digit sequences without leading zeros), since wei amounts such as      *)
(* 10^18 do not fit the model checker's machine integers.                  *)
(***************************************************************************)
EXTENDS Integers, Sequences, FiniteSets, TLC

VARIABLES
    pc,             \* where main / analyze_chain_data stands
    chain_i,        \* index into chains_to_analyze of the chain in progress
    txs,            \* analyze_chain_data: the fetched native transaction list
    tok,            \* analyze_chain_data: the fetched token-transfer list
    contracts,      \* analyze_chain_data: discover_token_contracts' result
    actions,        \* process_evm_transactions: the actions built so far
    tx_i,           \* process_evm_transactions: the transactions done so far
    chain_data,     \* the ChainRecord analyze_chain_data returned last
    chain_results,  \* main: the chains whose record was kept
    exc,            \* the uncaught exception that ended the process, if any
    SIG_CACHE,      \* _SIG_CACHE: selector -> Optional[str]
    lookups,        \* history: http_get calls to FOURBYTE_API, per selector
    returned,       \* history: the values sig_text returned, per selector
    fn,             \* the function called last (direct calls)
    args,           \* its arguments
    ret             \* its result

vars == <<pc, chain_i, txs, tok, contracts, actions, tx_i, chain_data, chain_results,
          exc, SIG_CACHE, lookups, returned, fn, args, ret>>

pipeline_vars == <<pc, chain_i, txs, tok, contracts, actions, tx_i, chain_data,
                   chain_results, exc>>

(***************************************************************************)
(* Strings                                                                 *)
(***************************************************************************)
UpperLetters == <<"A","B","C","D","E","F","G","H","I","J","K","L","M","N","O","P","Q","R","S","T","U","V","W","X","Y","Z">>

LowerLetters == <<"a","b","c","d","e","f","g","h","i","j","k","l","m","n","o","p","q","r","s","t","u","v","w","x","y","z">>

Digits == <<"0","1","2","3","4","5","6","7","8","9">>

\* str.lower() on one character (ASCII)
LowerChar(c) ==
    IF \E i \in 1..Len(UpperLetters) : UpperLetters[i] = c
    THEN LowerLetters[CHOOSE i \in 1..Len(UpperLetters) : UpperLetters[i] = c]
    ELSE c

\* the characters of the strings below, and LowerChar tabulated over them
Alphabet ==
    {UpperLetters[i] : i \in 1..Len(UpperLetters)}
    \cup {LowerLetters[i] : i \in 1..Len(LowerLetters)}
    \cup {Digits[i] : i \in 1..Len(Digits)} \cup {"(", ")", ",", "[", "]", "_"}

LowerTable == [c \in Alphabet |-> LowerChar(c)]

\* s.lower()
Lower(s) == [i \in 1..Len(s) |-> LowerTable[s[i]]]

\* s[:n]
Prefix(s, n) == SubSeq(s, 1, IF Len(s) < n THEN Len(s) ELSE n)

\* sub in s
Contains(sub, s) ==
    \E i \in 0..(Len(s) - Len(sub)) : SubSeq(s, i + 1, i + Len(sub)) = sub

None == [some |-> FALSE, v |-> <<>>]

Some(s) == [some |-> TRUE, v |-> s]

\* Python truthiness of an Optional[str]: neither None nor ""
Truthy(o) == o.some /\ o.v # <<>>

\* `o or d` for an Optional[str] o and a string d
OrElse(o, d) == IF Truthy(o) THEN o.v ELSE d

RECURSIVE StripZeros(_)
StripZeros(s) ==
    IF Len(s) > 1 /\ s[1] = "0" THEN StripZeros(Tail(s)) ELSE s

\* int(s) for a decimal string: ValueError unless s is a digit string
PyInt(s) ==
    IF s = <<>> \/ \E i \in 1..Len(s) : \A d \in 1..Len(Digits) : Digits[d] # s[i]
    THEN [raised |-> TRUE, val |-> <<"0">>]
    ELSE [raised |-> FALSE, val |-> StripZeros(s)]

\* n > 0 for an int n
Positive(n) == n # <<"0">>

(***************************************************************************)
(* HTTP                                                                    *)
(***************************************************************************)
retry == 3

\* http_get: `fails` responses that are not ok come before the first ok one,
\* whose parsed body (r.json(), or r.text when it is not JSON) is `body`.
http_get(fails, body) ==
    IF fails >= retry
    THEN [raised |-> TRUE, data |-> body]
    ELSE [raised |-> FALSE, data |-> body]

(***************************************************************************)
(* Signatures and action guess                                             *)
(***************************************************************************)
\* sig_text lines 223-229: the first candidate's text_signature, None when
\* the response is not a dict, holds no results, or the candidate has none.
first_text_signature(data) ==
    IF ~data.json THEN None
    ELSE IF data.results = <<>> THEN None
    ELSE data.results[1]

\* a faulty variant: a cached None is looked up again and overwritten
sig_text_retry_none(sig4, cache, fails, body) ==
    IF ~Truthy(sig4) \/ sig4.v = <<"0","x">> \/ Len(sig4.v) < 10
    THEN [raised |-> FALSE, ret |-> None, cache |-> cache, looked |-> FALSE, key |-> <<>>]
    ELSE LET key == Lower(Prefix(sig4.v, 10)) IN
         IF key \in DOMAIN cache /\ cache[key] # None
         THEN [raised |-> FALSE, ret |-> cache[key], cache |-> cache,
               looked |-> FALSE, key |-> key]
         ELSE LET r == http_get(fails, body) IN
              IF r.raised
              THEN [raised |-> TRUE, ret |-> None, cache |-> cache,
                    looked |-> TRUE, key |-> key]
              ELSE LET text == first_text_signature(r.data) IN
                   [raised |-> FALSE, ret |-> text,
                    cache |-> [k \in DOMAIN cache \cup {key} |->
                                  IF k = key THEN text ELSE cache[k]],
                    looked |-> TRUE, key |-> key]

\* a faulty variant: a selector shorter than ten characters is looked up too
sig_text_any_length(sig4, cache, fails, body) ==
    IF ~Truthy(sig4) \/ sig4.v = <<"0","x">>
    THEN [raised |-> FALSE, ret |-> None, cache |-> cache, looked |-> FALSE, key |-> <<>>]
    ELSE LET key == Lower(Prefix(sig4.v, 10)) IN
         IF key \in DOMAIN cache
         THEN [raised |-> FALSE, ret |-> cache[key], cache |-> cache,
               looked |-> FALSE, key |-> key]
         ELSE LET r == http_get(fails, body) IN
              IF r.raised
              THEN [raised |-> TRUE, ret |-> None, cache |-> cache,
                    looked |-> TRUE, key |-> key]
              ELSE LET text == first_text_signature(r.data) IN
                   [raised |-> FALSE, ret |-> text,
                    cache |-> [k \in DOMAIN cache \cup {key} |->
                                  IF k = key THEN text ELSE cache[k]],
                    looked |-> TRUE, key |-> key]

\* sig_text(sig4) on cache `cache`, the registry answering (fails, body).
\* looked: http_get was called.  raised: the RuntimeError of http_get left
\* sig_text (nothing catches it there).
sig_text(sig4, cache, fails, body) ==
    IF ~Truthy(sig4) \/ sig4.v = <<"0","x">> \/ Len(sig4.v) < 10
    THEN [raised |-> FALSE, ret |-> None, cache |-> cache, looked |-> FALSE, key |-> <<>>]
    ELSE LET key == Lower(Prefix(sig4.v, 10)) IN
         IF key \in DOMAIN cache
         THEN [raised |-> FALSE, ret |-> cache[key], cache |-> cache,
               looked |-> FALSE, key |-> key]
         ELSE LET r == http_get(fails, body) IN
              IF r.raised
              THEN [raised |-> TRUE, ret |-> None, cache |-> cache,
                    looked |-> TRUE, key |-> key]
              ELSE LET text == first_text_signature(r.data) IN
                   [raised |-> FALSE, ret |-> text,
                    cache |-> [k \in DOMAIN cache \cup {key} |->
                                  IF k = key THEN text ELSE cache[k]],
                    looked |-> TRUE, key |-> key]

\* a faulty variant: `is not None` instead of the truth value of method_text
guess_action_not_none(method_text, eth_value_wei) ==
    IF method_text.some
    THEN LET low == Lower(method_text.v) IN
         IF Contains(<<"a","p","p","r","o","v","e","(">>, low) THEN "approve"
         ELSE IF Contains(<<"s","w","a","p">>, low) THEN "swap"
         ELSE IF \/ Contains(<<"d","e","p","o","s","i","t">>, low)
                 \/ Contains(<<"s","u","p","p","l","y">>, low)
                 \/ Contains(<<"a","d","d","l","i","q","u","i","d","i","t","y">>, low) THEN "deposit"
         ELSE IF \/ Contains(<<"w","i","t","h","d","r","a","w">>, low)
                 \/ Contains(<<"r","e","m","o","v","e","l","i","q","u","i","d","i","t","y">>, low) THEN "withdraw"
         ELSE IF Contains(<<"b","o","r","r","o","w","(">>, low) THEN "borrow"
         ELSE IF Contains(<<"r","e","p","a","y","(">>, low) THEN "repay"
         ELSE "contract_call"
    ELSE IF Positive(eth_value_wei) THEN "eth_transfer" ELSE "unknown"

\* a faulty variant: the tests run on the method text as given, not lower-cased
guess_action_as_given(method_text, eth_value_wei) ==
    IF Truthy(method_text)
    THEN LET low == method_text.v IN
         IF Contains(<<"a","p","p","r","o","v","e","(">>, low) THEN "approve"
         ELSE IF Contains(<<"s","w","a","p">>, low) THEN "swap"
         ELSE IF \/ Contains(<<"d","e","p","o","s","i","t">>, low)
                 \/ Contains(<<"s","u","p","p","l","y">>, low)
                 \/ Contains(<<"a","d","d","l","i","q","u","i","d","i","t","y">>, low) THEN "deposit"
         ELSE IF \/ Contains(<<"w","i","t","h","d","r","a","w">>, low)
                 \/ Contains(<<"r","e","m","o","v","e","l","i","q","u","i","d","i","t","y">>, low) THEN "withdraw"
         ELSE IF Contains(<<"b","o","r","r","o","w","(">>, low) THEN "borrow"
         ELSE IF Contains(<<"r","e","p","a","y","(">>, low) THEN "repay"
         ELSE "contract_call"
    ELSE IF Positive(eth_value_wei) THEN "eth_transfer" ELSE "unknown"

guess_action(method_text, eth_value_wei) ==
    IF Truthy(method_text)
    THEN LET low == Lower(method_text.v) IN
         IF Contains(<<"a","p","p","r","o","v","e","(">>, low) THEN "approve"
         ELSE IF Contains(<<"s","w","a","p">>, low) THEN "swap"
         ELSE IF \/ Contains(<<"d","e","p","o","s","i","t">>, low)
                 \/ Contains(<<"s","u","p","p","l","y">>, low)
                 \/ Contains(<<"a","d","d","l","i","q","u","i","d","i","t","y">>, low) THEN "deposit"
         ELSE IF \/ Contains(<<"w","i","t","h","d","r","a","w">>, low)
                 \/ Contains(<<"r","e","m","o","v","e","l","i","q","u","i","d","i","t","y">>, low) THEN "withdraw"
         ELSE IF Contains(<<"b","o","r","r","o","w","(">>, low) THEN "borrow"
         ELSE IF Contains(<<"r","e","p","a","y","(">>, low) THEN "repay"
         ELSE "contract_call"
    ELSE IF Positive(eth_value_wei) THEN "eth_transfer" ELSE "unknown"

(***************************************************************************)
(* Addresses                                                               *)
(***************************************************************************)
HexDigits == <<"0","1","2","3","4","5","6","7","8","9","a","b","c","d","e","f">>

\* The EIP-55 forms of the addresses the feeds below mention: what
\* Web3.to_checksum_address returns for them in any letter case.
UNISWAP_V2_ROUTER == <<"0","x","7","a","2","5","0","d","5","6","3","0","B","4","c","F","5","3","9","7","3","9","d","F","2","C","5","d","A","c","b","4","c","6","5","9","F","2","4","8","8","D">>

PANCAKE_V2_ROUTER == <<"0","x","1","0","E","D","4","3","C","7","1","8","7","1","4","e","b","6","3","d","5","a","A","5","7","B","7","8","B","5","4","7","0","4","E","2","5","6","0","2","4","E">>

USDC == <<"0","x","A","0","b","8","6","9","9","1","c","6","2","1","8","b","3","6","c","1","d","1","9","D","4","a","2","e","9","E","b","0","c","E","3","6","0","6","e","B","4","8">>

DAI == <<"0","x","6","B","1","7","5","4","7","4","E","8","9","0","9","4","C","4","4","D","a","9","8","b","9","5","4","E","e","d","e","A","C","4","9","5","2","7","1","d","0","F">>

HOLDER == <<"0","x","d","8","d","A","6","B","F","2","6","9","6","4","a","F","9","D","7","e","E","d","9","e","0","3","E","5","3","4","1","5","D","3","7","a","A","9","6","0","4","5">>

NOT_AN_ADDRESS == <<"0","x","z","z">>

\* Protocol mapping (the keys are EIP-55 strings)
ETH_PROTOCOLS ==
    ( UNISWAP_V2_ROUTER :> <<"U","n","i","s","w","a","p","V","2","R","o","u","t","e","r","0","2">> )
 @@ ( <<"0","x","E","5","9","2","4","2","7","A","0","A","E","c","e","9","2","D","e","3","E","d","e","e","1","F","1","8","E","0","1","5","7","C","0","5","8","6","1","5","6","4">> :> <<"U","n","i","s","w","a","p","V","3","S","w","a","p","R","o","u","t","e","r">> )
 @@ ( <<"0","x","E","f","1","c","6","E","6","7","7","0","3","c","7","B","D","7","1","0","7","e","e","d","8","3","0","3","F","b","e","6","E","C","2","5","5","4","B","F","6","B">> :> <<"U","n","i","s","w","a","p","U","n","i","v","e","r","s","a","l","R","o","u","t","e","r">> )
 @@ ( <<"0","x","3","d","9","8","1","9","2","1","0","A","3","1","b","4","9","6","1","b","3","0","E","F","5","4","b","E","2","a","e","D","7","9","B","9","c","9","C","d","3","B">> :> <<"C","o","m","p","o","u","n","d","V","2","C","o","m","p","t","r","o","l","l","e","r">> )

BSC_PROTOCOLS ==
    ( PANCAKE_V2_ROUTER :> <<"P","a","n","c","a","k","e","S","w","a","p","V","2","R","o","u","t","e","r">> )
 @@ ( <<"0","x","1","b","8","1","D","6","7","8","f","f","b","9","C","0","2","6","3","b","2","4","A","9","7","8","4","7","6","2","0","C","9","9","d","2","1","3","e","B","1","4">> :> <<"P","a","n","c","a","k","e","S","w","a","p","V","3","R","o","u","t","e","r">> )
 @@ ( <<"0","x","8","9","0","9","D","c","1","5","e","4","0","1","7","3","F","f","4","6","9","9","3","4","3","b","6","e","B","8","1","3","2","c","6","5","e","1","8","e","C","6">> :> <<"B","i","s","w","a","p","R","o","u","t","e","r">> )
 @@ ( <<"0","x","0","5","f","F","2","B","0","D","B","6","9","4","5","8","A","0","7","5","0","b","a","d","e","b","c","4","f","9","e","1","3","a","D","d","6","0","8","C","7","F">> :> <<"P","a","n","c","a","k","e","S","w","a","p","M","a","s","t","e","r","C","h","e","f">> )

Eip55 == DOMAIN ETH_PROTOCOLS \cup DOMAIN BSC_PROTOCOLS \cup {USDC, DAI, HOLDER}

HexDigitSet == {HexDigits[d] : d \in 1..Len(HexDigits)}

\* lower-cased address -> its EIP-55 form
Eip55Of == [low \in {Lower(c) : c \in Eip55} |-> CHOOSE c \in Eip55 : Lower(c) = low]

\* a 0x-prefixed string of 40 hex digits, in lower case
IsHexAddress(low) ==
    /\ Len(low) = 42
    /\ low[1] = "0" /\ low[2] = "x"
    /\ \A i \in 3..Len(low) : low[i] \in HexDigitSet

\* Web3.to_checksum_address: lower-cases, rejects what is no address with
\* a ValueError, and returns the EIP-55 casing of the rest (the tabulated
\* addresses are looked up first: they are addresses)
to_checksum_address(value) ==
    LET low == Lower(value) IN
    IF low \in DOMAIN Eip55Of \/ IsHexAddress(low)
    THEN [raised |-> FALSE, val |-> Eip55Of[low]]
    ELSE [raised |-> TRUE, val |-> <<>>]

(***************************************************************************)
(* Holdings                                                                *)
(***************************************************************************)
RECURSIVE discover_loop(_, _, _)
\* the loop of discover_token_contracts; seen is the dict's key order
discover_loop(logs, limit, seen) ==
    IF logs = <<>> THEN [raised |-> FALSE, val |-> seen]
    ELSE LET ca == Head(logs).contractAddress IN
         IF Truthy(ca)
         THEN LET c == to_checksum_address(ca.v) IN
              IF c.raised THEN [raised |-> TRUE, val |-> <<>>]
              ELSE LET seen2 == IF \E i \in 1..Len(seen) : seen[i] = c.val
                                THEN seen ELSE Append(seen, c.val) IN
                   IF Len(seen2) >= limit
                   THEN [raised |-> FALSE, val |-> seen2]
                   ELSE discover_loop(Tail(logs), limit, seen2)
         ELSE discover_loop(Tail(logs), limit, seen)

discover_token_contracts(logs, limit) == discover_loop(logs, limit, <<>>)

(***************************************************************************)
(* Transactions                                                            *)
(***************************************************************************)
\* tok_by_hash.get(h, []): the events filed under the lower-cased hash h
tok_by_hash(tok_, h) ==
    SelectSeq(tok_, LAMBDA ev : Lower(OrElse(ev.hash, <<>>)) = h)

\* len(erc20_in): the events of evs whose "to" is the holder
erc20_in_cnt(evs, holder) ==
    Len(SelectSeq(evs, LAMBDA ev : Lower(OrElse(ev.to, <<>>)) = Lower(holder)))

\* a faulty variant: an event already counted as incoming is not counted as
\* outgoing (elif instead of the second if)
erc20_out_cnt_elif(evs, holder) ==
    Len(SelectSeq(evs, LAMBDA ev :
        /\ Lower(OrElse(ev.from, <<>>)) = Lower(holder)
        /\ Lower(OrElse(ev.to, <<>>)) # Lower(holder)))

\* len(erc20_out): the events of evs whose "from" is the holder
erc20_out_cnt(evs, holder) ==
    Len(SelectSeq(evs, LAMBDA ev : Lower(OrElse(ev.from, <<>>)) = Lower(holder)))

\* a faulty variant: `to` is looked up as the feed spells it
protocol_of_as_spelled(to, protocols) ==
    IF to \in DOMAIN protocols THEN Some(protocols[to]) ELSE None

\* lines 532-539: the registry's name for `to`, None when `to` is empty,
\* is no address (the ValueError is caught) or is not a key
protocol_of(to, protocols) ==
    IF to = <<>> THEN None
    ELSE LET cto == to_checksum_address(to) IN
         IF cto.raised THEN None
         ELSE IF cto.val \in DOMAIN protocols THEN Some(protocols[cto.val])
         ELSE None

\* line 529: the selector handed to sig_text
sig4_of(inp) ==
    IF inp # <<>> /\ inp # <<"0","x">> THEN Some(Lower(Prefix(inp, 10))) ELSE None

\* the selector sig_text files sig4 under
cache_key(sig4) == Lower(Prefix(sig4.v, 10))

\* one pass of the loop of process_evm_transactions (lines 522-561) for
\* transaction t, on cache `cache`, the signature registry answering
\* (fails, body) if asked.  raised names the exception that leaves the
\* function (nothing in it catches int()'s ValueError or the RuntimeError
\* that sig_text lets through); action is the dict appended otherwise.
process_tx(t, tok_, chk, protocols, cache, fails, body) ==
    LET h == Lower(OrElse(t.hash, <<>>))
        to == OrElse(t.to, <<>>)
        val == PyInt(IF t.value.some THEN t.value.v ELSE <<"0">>)
        inp == OrElse(t.input, <<"0","x">>)
        s == sig_text(sig4_of(inp), cache, fails, body)
        evs == tok_by_hash(tok_, h)
    IN  IF val.raised
        THEN [raised |-> "ValueError", sig |-> [s EXCEPT !.looked = FALSE, !.cache = cache,
                                                         !.key = <<>>],
              action |-> <<>>]
        ELSE IF s.raised
        THEN [raised |-> "RuntimeError", sig |-> s, action |-> <<>>]
        ELSE [raised |-> "", sig |-> s,
              action |-> [hash |-> t.hash, to |-> to,
                          protocol |-> protocol_of(to, protocols),
                          type |-> guess_action(s.ret, val.val),
                          method |-> s.ret,
                          erc20_in_cnt |-> erc20_in_cnt(evs, chk),
                          erc20_out_cnt |-> erc20_out_cnt(evs, chk)]]

\* a faulty variant: every protocol value is counted, None and "" included
calculate_features_any_protocol(actions_) ==
    LET idx == 1..Len(actions_) IN
    [unknown_calls |-> Cardinality({i \in idx :
                          /\ actions_[i].type \in {"unknown", "contract_call"}
                          /\ ~Truthy(actions_[i].method)}),
     approvals |-> Cardinality({i \in idx : actions_[i].type = "approve"}),
     swaps |-> Cardinality({i \in idx : actions_[i].type = "swap"}),
     unique_protocols |-> Cardinality({actions_[i].protocol : i \in idx})]

\* each sum(1 for a in actions if ...) is the number of positions that pass
calculate_features(actions_) ==
    LET idx == 1..Len(actions_) IN
    [unknown_calls |-> Cardinality({i \in idx :
                          /\ actions_[i].type \in {"unknown", "contract_call"}
                          /\ ~Truthy(actions_[i].method)}),
     approvals |-> Cardinality({i \in idx : actions_[i].type = "approve"}),
     swaps |-> Cardinality({i \in idx : actions_[i].type = "swap"}),
     unique_protocols |-> Cardinality({actions_[i].protocol.v :
                             i \in {j \in idx : Truthy(actions_[j].protocol)}})]

(***************************************************************************)
(* Transaction pulls                                                       *)
(***************************************************************************)
CHAIN_IDS == {"eth", "bsc"}

\* get_multichain_txlist with ETHERSCAN_API_KEY set: the "result" of a dict
\* whose status is "1", [] for any other response, and the RuntimeError of
\* http_get when every attempt failed (nothing here catches it).
get_multichain_txlist(chain, fails, body) ==
    IF chain \notin CHAIN_IDS THEN [raised |-> FALSE, val |-> <<>>]
    ELSE LET r == http_get(fails, body) IN
         IF r.raised THEN [raised |-> TRUE, val |-> <<>>]
         ELSE IF r.data.json /\ r.data.status = "1"
              THEN [raised |-> FALSE, val |-> r.data.result]
              ELSE [raised |-> FALSE, val |-> <<>>]

\* get_multichain_tokentx: the same over the token-transfer feed
get_multichain_tokentx(chain, fails, body) ==
    IF chain \notin CHAIN_IDS THEN [raised |-> FALSE, val |-> <<>>]
    ELSE LET r == http_get(fails, body) IN
         IF r.raised THEN [raised |-> TRUE, val |-> <<>>]
         ELSE IF r.data.json /\ r.data.status = "1"
              THEN [raised |-> FALSE, val |-> r.data.result]
              ELSE [raised |-> FALSE, val |-> <<>>]

(***************************************************************************)
(* Balances                                                                *)
(***************************************************************************)
\* get_chain_balance: the wei balance the node reports, 0 on any exception
get_chain_balance(answer) == IF answer.ok THEN answer.wei ELSE <<"0">>

RECURSIVE fetch_erc20_snapshot(_, _, _)
\* fetch_erc20_snapshot over contracts, rpc[i] being the node's answer for
\* contracts[i]: a failed call or a zero balance leaves the contract out
fetch_erc20_snapshot(contracts_, rpc, chain_prefix) ==
    IF contracts_ = <<>> THEN <<>>
    ELSE LET ca == Head(contracts_)
             a == Head(rpc)
             rest == fetch_erc20_snapshot(Tail(contracts_), Tail(rpc), chain_prefix)
         IN  IF to_checksum_address(ca).raised \/ ~a.ok \/ a.bal = <<"0">> THEN rest
             ELSE <<[contract |-> ca, balance_raw |-> a.bal, symbol |-> a.sym,
                     decimals |-> a.dec, chain |-> chain_prefix]>> \o rest

RECURSIVE Incr(_)
\* n + 1 on a numeral
Incr(n) ==
    IF n = <<>> THEN <<"1">>
    ELSE LET last == n[Len(n)]
             front == SubSeq(n, 1, Len(n) - 1)
         IN  IF last = "9" THEN Append(Incr(front), "0")
             ELSE Append(front, Digits[1 + CHOOSE d \in 1..Len(Digits) : Digits[d] = last])

RECURSIVE Zeros(_)
Zeros(k) == IF k <= 0 THEN <<>> ELSE <<"0">> \o Zeros(k - 1)

\* round(raw / 10**dec, 8) and float(f"{raw / 10**dec:.8f}"), as the number
\* of 1e-8 units: raw / 10^(dec - 8) rounded to the nearest integer (the
\* feeds below hold no exact tie)
units8(raw, dec) ==
    IF raw = <<"0">> THEN <<"0">>
    ELSE IF dec <= 8 THEN raw \o Zeros(8 - dec)
    ELSE LET k == dec - 8
             L == Len(raw)
             up(c) == \E d \in 6..Len(Digits) : Digits[d] = c
         IN  IF L < k THEN <<"0">>
             ELSE IF L = k THEN (IF up(raw[1]) THEN <<"1">> ELSE <<"0">>)
             ELSE IF up(raw[L - k + 1]) THEN Incr(SubSeq(raw, 1, L - k))
             ELSE SubSeq(raw, 1, L - k)

(***************************************************************************)
(* analyze_chain_data                                                      *)
(***************************************************************************)
\* line 18: read from the environment (50 when unset); a run configured with 2
MAX_TX_PER_CHAIN == 2

\* lines 425 / 461: discover_token_contracts(tok, limit=50)
DISCOVER_LIMIT == 50

Min(a, b) == IF a < b THEN a ELSE b

\* a faulty variant: the last MAX_TX_PER_CHAIN actions instead of the first
actions_tail(actions_) ==
    SubSeq(actions_, Len(actions_) - Min(Len(actions_), MAX_TX_PER_CHAIN) + 1, Len(actions_))

\* actions[:MAX_TX_PER_CHAIN]
actions_lastN(actions_) == SubSeq(actions_, 1, Min(Len(actions_), MAX_TX_PER_CHAIN))

\* features_min: calculate_features(actions), over the list as classified
features_min(actions_) == calculate_features(actions_)

\* lines 435-451 (eth) and 469-485 (bsc): the native holding when the balance
\* is positive, then one holding per snapshot item, cut to ten
holdings_top10(chain, wei, erc20_snap) ==
    LET native == IF Positive(wei)
                  THEN <<[symbol |-> Some(IF chain = "eth" THEN <<"E","T","H">> ELSE <<"B","N","B">>),
                          contract |-> None, decimals |-> 18,
                          balance |-> units8(wei, 18), chain |-> chain]>>
                  ELSE <<>>
        token(item) == [symbol |-> item.symbol, contract |-> Some(item.contract),
                        decimals |-> item.decimals,
                        balance |-> units8(item.balance_raw, item.decimals),
                        chain |-> chain]
        kept == SelectSeq(erc20_snap, LAMBDA item : Positive(item.balance_raw))
        all == native \o [i \in 1..Len(kept) |-> token(kept[i])]
    IN  SubSeq(all, 1, Min(Len(all), 10))

\* line 408: the record analyze_chain_data starts from
empty_chain_data(chain) ==
    [chain |-> chain, holdings_top10 |-> <<>>, actions_lastN |-> <<>>,
     features_min |-> [unknown_calls |-> 0, approvals |-> 0, swaps |-> 0,
                       unique_protocols |-> 0]]

protocols_of(chain) == IF chain = "eth" THEN ETH_PROTOCOLS ELSE BSC_PROTOCOLS

\* main lines 614-620 with both nodes and ETHERSCAN_API_KEY configured and
\* HELIUS_BASE_URL unset
chains_to_analyze == <<"eth", "bsc">>

(***************************************************************************)
(* The feeds: what the collaborators may answer                            *)
(***************************************************************************)
MaxTxs == 3

SeqsUpTo(S, n) == UNION {[1..k -> S] : k \in 0..n}

\* sys.argv[1]: the wallet address, as typed
ADDRESS == Lower(HOLDER)

\* line 417 / 454: the holder as handed to process_evm_transactions
CHK == to_checksum_address(ADDRESS).val

TX_SWAP ==
    [hash |-> Some(<<"0","x","a","b">>), to |-> Some(Lower(UNISWAP_V2_ROUTER)),
     value |-> Some(<<"0">>), input |-> Some(<<"0","x","0","2","2","c","0","d","9","f","0","0">>)]

TX_APPROVE ==
    [hash |-> Some(<<"0","x","A","B">>), to |-> Some(NOT_AN_ADDRESS),
     value |-> None, input |-> Some(<<"0","x","0","9","5","E","A","7","B","3">>)]

TX_SEND ==
    [hash |-> Some(<<"0","x","c","d">>), to |-> Some(<<>>),
     value |-> Some(<<"1","0","0","0","0","0","0","0","0","0","0","0","0","0","0","0","0","0","0">>), input |-> Some(<<"0","x">>)]

TxPool == {TX_SWAP, TX_APPROVE, TX_SEND}

EV_IN ==
    [hash |-> Some(<<"0","x","A","B">>), to |-> Some(Lower(HOLDER)), from |-> Some(Lower(USDC)),
     contractAddress |-> Some(Lower(USDC))]

EV_OUT ==
    [hash |-> Some(<<"0","x","a","b">>), to |-> Some(Lower(DAI)), from |-> Some(HOLDER),
     contractAddress |-> Some(USDC)]

EV_SELF ==
    [hash |-> Some(<<"0","x","a","b">>), to |-> Some(HOLDER), from |-> Some(Lower(HOLDER)),
     contractAddress |-> Some(Lower(DAI))]

EV_BAD ==
    [hash |-> Some(<<"0","x","c","d">>), to |-> Some(Lower(HOLDER)), from |-> None,
     contractAddress |-> Some(NOT_AN_ADDRESS)]

\* the token-transfer history of the holder, newest first; a response holds
\* any of its events, in this order
TOKEN_FEED == <<EV_IN, EV_OUT, EV_SELF, EV_BAD>>

SubFeeds(feed) ==
    {SelectSeq([i \in 1..Len(feed) |-> <<i, feed[i]>>], LAMBDA p : p[1] \in I) :
        I \in SUBSET (1..Len(feed))}

TokenLists == {[i \in 1..Len(l) |-> l[i][2]] : l \in SubFeeds(TOKEN_FEED)}

TxLists == SeqsUpTo(TxPool, MaxTxs)

\* Etherscan responses: a dict with status "1" and a result list, a dict with
\* an error status, and a body that is no dict
ListBodies(Lists) ==
    {[json |-> TRUE, status |-> "1", result |-> l] : l \in Lists}
    \cup {[json |-> TRUE, status |-> "0", result |-> <<>>],
          [json |-> FALSE, status |-> "", result |-> <<>>]}

\* the not-ok responses before the first ok one: none, all but the last
\* attempt, every attempt
FailCounts == {0, retry - 1, retry}

APPROVE_SELECTOR == <<"0","x","0","9","5","e","a","7","b","3">>

SWAP_SELECTOR == <<"0","x","0","2","2","c","0","d","9","f">>

\* the text signatures the registry knows
Signatures ==
    ( APPROVE_SELECTOR :> <<"a","p","p","r","o","v","e","(","a","d","d","r","e","s","s",",","u","i","n","t","2","5","6",")">> )
 @@ ( SWAP_SELECTOR :> <<"s","w","a","p","(","u","i","n","t","2","5","6",",","u","i","n","t","2","5","6",",","a","d","d","r","e","s","s",",","b","y","t","e","s",")">> )

\* 4byte responses for selector k: its signature, no result, not a dict
FourByteBodies(k) ==
    {[json |-> TRUE, results |-> <<Some(Signatures[k])>>],
     [json |-> TRUE, results |-> <<>>],
     [json |-> FALSE, results |-> <<>>]}

\* what the registry may answer when sig_text(sig4) asks it; one answer
\* that is never read when sig_text does not ask
RegistryAnswers(sig4, cache) ==
    IF Truthy(sig4) /\ Len(sig4.v) >= 10 /\ cache_key(sig4) \notin DOMAIN cache
    THEN [fails : FailCounts, body : FourByteBodies(cache_key(sig4))]
    ELSE {[fails |-> 0, body |-> [json |-> FALSE, results |-> <<>>]]}

\* node answers: get_balance, and balanceOf / symbol / decimals of a token
NativeAnswers ==
    {[ok |-> FALSE, wei |-> <<"0">>], [ok |-> TRUE, wei |-> <<"0">>],
     [ok |-> TRUE, wei |-> <<"1","0","0","0","0","0","0","0","0","0","0","0","0","0","0","0","0","0","0">>]}

RpcAnswers ==
    {[ok |-> FALSE, bal |-> <<"0">>, sym |-> None, dec |-> 18],
     [ok |-> TRUE, bal |-> <<"0">>, sym |-> Some(<<"T","K","N">>), dec |-> 6],
     [ok |-> TRUE, bal |-> <<"1">>, sym |-> Some(<<"T","K","N">>), dec |-> 18],
     [ok |-> TRUE, bal |-> <<"5","0","0","0","0","0","0">>, sym |-> Some(<<"T","K","N">>), dec |-> 6]}

(***************************************************************************)
(* History of the signature lookups                                        *)
(***************************************************************************)
CountOf(f, k) == IF k \in DOMAIN f THEN f[k] ELSE 0

\* one more http_get to FOURBYTE_API for selector k
AddLookup(f, k) ==
    [x \in DOMAIN f \cup {k} |-> IF x = k THEN CountOf(f, k) + 1 ELSE f[x]]

\* sig_text returned v for selector k
AddReturned(f, k, v) ==
    [x \in DOMAIN f \cup {k} |->
        IF x = k THEN (IF k \in DOMAIN f THEN f[k] ELSE {}) \cup {v} ELSE f[x]]

\* the history after a sig_text call with result s
Lookups(s) == IF s.looked THEN AddLookup(lookups, s.key) ELSE lookups

Returned(s) ==
    IF s.raised \/ s.key = <<>> THEN returned ELSE AddReturned(returned, s.key, s.ret)

(***************************************************************************)
(* main                                                                    *)
(***************************************************************************)
Init ==
    /\ pc = "main"
    /\ chain_i = 1
    /\ txs = <<>>
    /\ tok = <<>>
    /\ contracts = <<>>
    /\ actions = <<>>
    /\ tx_i = 0
    /\ chain_data = empty_chain_data("")
    /\ chain_results = <<>>
    /\ exc = ""
    /\ SIG_CACHE = <<>>
    /\ lookups = <<>>
    /\ returned = <<>>
    /\ fn = ""
    /\ args = <<>>
    /\ ret = <<>>

history_vars == <<SIG_CACHE, lookups, returned>>

call_vars == <<fn, args, ret>>

\* main line 631-633: the next chain; analyze_chain_data starts (line 408)
MainLoop ==
    /\ pc = "main"
    /\ chain_i <= Len(chains_to_analyze)
    /\ pc' = "txlist"
    /\ chain_data' = empty_chain_data(chains_to_analyze[chain_i])
    /\ UNCHANGED <<chain_i, txs, tok, contracts, actions, tx_i, chain_results, exc,
                   history_vars, call_vars>>

\* main lines 637-639 and on: no chain kept, or pricing and the report
MainEnd ==
    /\ pc = "main"
    /\ chain_i > Len(chains_to_analyze)
    /\ pc' = IF chain_results = <<>> THEN "no_activity" ELSE "report"
    /\ chain_data' = empty_chain_data("")      \* line 646 rebinds the name
    /\ UNCHANGED <<chain_i, txs, tok, contracts, actions, tx_i, chain_results,
                   exc, history_vars, call_vars>>

\* line 420 / 457
GetTxlist ==
    /\ pc = "txlist"
    /\ \E fails \in FailCounts, body \in ListBodies(TxLists) :
         LET r == get_multichain_txlist(chains_to_analyze[chain_i], fails, body) IN
         IF r.raised
         THEN /\ pc' = "aborted" /\ exc' = "RuntimeError" /\ txs' = txs
         ELSE /\ pc' = "tokentx" /\ exc' = exc /\ txs' = r.val
    /\ UNCHANGED <<chain_i, tok, contracts, actions, tx_i, chain_data, chain_results,
                   history_vars, call_vars>>

\* line 421 / 458
GetTokentx ==
    /\ pc = "tokentx"
    /\ \E fails \in FailCounts, body \in ListBodies(TokenLists) :
         LET r == get_multichain_tokentx(chains_to_analyze[chain_i], fails, body) IN
         IF r.raised
         THEN /\ pc' = "aborted" /\ exc' = "RuntimeError" /\ tok' = tok
         ELSE /\ pc' = "discover" /\ exc' = exc /\ tok' = r.val
    /\ UNCHANGED <<chain_i, txs, contracts, actions, tx_i, chain_data, chain_results,
                   history_vars, call_vars>>

\* line 425 / 461
Discover ==
    /\ pc = "discover"
    /\ LET r == discover_token_contracts(tok, DISCOVER_LIMIT) IN
         IF r.raised
         THEN /\ pc' = "aborted" /\ exc' = "ValueError" /\ contracts' = contracts
         ELSE /\ pc' = "process" /\ exc' = exc /\ contracts' = r.val
    /\ UNCHANGED <<chain_i, txs, tok, actions, tx_i, chain_data, chain_results,
                   history_vars, call_vars>>

\* line 429 / 464: the next transaction of the loop of
\* process_evm_transactions
ProcessTx ==
    /\ pc = "process"
    /\ tx_i < Len(txs)
    /\ LET t == txs[tx_i + 1] IN
       \E q \in RegistryAnswers(sig4_of(OrElse(t.input, <<"0","x">>)), SIG_CACHE) :
         LET r == process_tx(t, tok, CHK,
                     protocols_of(chains_to_analyze[chain_i]), SIG_CACHE, q.fails, q.body)
         IN  /\ SIG_CACHE' = r.sig.cache
             /\ lookups' = Lookups(r.sig)
             /\ returned' = Returned(r.sig)
             /\ IF r.raised # ""
                THEN /\ pc' = "aborted" /\ exc' = r.raised
                     /\ actions' = actions /\ tx_i' = tx_i
                ELSE /\ pc' = pc /\ exc' = exc
                     /\ actions' = Append(actions, r.action) /\ tx_i' = tx_i + 1
    /\ UNCHANGED <<chain_i, txs, tok, contracts, chain_data, chain_results, call_vars>>

\* process_evm_transactions returns (line 563); lines 424-426 / 460-462 (the
\* node's answers, which change nothing else), lines 431-451 / 466-485, and
\* the return to main lines 633-635, where the locals of analyze_chain_data
\* are gone
Assemble ==
    /\ pc = "process"
    /\ tx_i = Len(txs)
    /\ LET chain == chains_to_analyze[chain_i]
           lastN == actions_lastN(actions)
           features == features_min(actions)
       IN  \E native \in NativeAnswers, rpc \in [1..Len(contracts) -> RpcAnswers] :
             LET snap == fetch_erc20_snapshot(contracts, rpc, chain)
                 holdings == holdings_top10(chain, get_chain_balance(native), snap)
             IN  /\ chain_data' = [chain |-> chain,
                                   holdings_top10 |-> holdings,
                                   actions_lastN |-> lastN,
                                   features_min |-> features]
                 /\ chain_results' = IF holdings # <<>> \/ lastN # <<>>
                                     THEN Append(chain_results, chain)
                                     ELSE chain_results
    /\ chain_i' = chain_i + 1
    /\ pc' = "main"
    /\ txs' = <<>> /\ tok' = <<>> /\ contracts' = <<>> /\ actions' = <<>> /\ tx_i' = 0
    /\ UNCHANGED <<exc, history_vars, call_vars>>

Next == MainLoop \/ MainEnd \/ GetTxlist \/ GetTokentx \/ Discover \/ ProcessTx \/ Assemble

Spec == Init /\ [][Next]_vars

(***************************************************************************)
(* Direct calls of sig_text: a caller that calls it any number of times,   *)
(* with any selector, and goes on after an exception                       *)
(***************************************************************************)
MaxLookups == 2

Sig4Args ==
    {None, Some(<<"0","x">>), Some(<<"0","x","0","9","5","e">>), Some(APPROVE_SELECTOR), Some(<<"0","x","0","9","5","E","A","7","B","3">>),
     Some(<<"0","x","0","9","5","E","a","7","b","3","0","0","0","0","0","0","0","0","0","0","0","0">>), Some(SWAP_SELECTOR)}

\* 4byte responses, whatever the selector: one candidate, two candidates, a
\* candidate whose text_signature is empty, a candidate without
\* text_signature, no candidate, a body that is no dict
AnyFourByteBody ==
    {[json |-> TRUE, results |-> <<Some(Signatures[APPROVE_SELECTOR])>>],
     [json |-> TRUE, results |-> <<Some(<<"t","r","a","n","s","f","e","r","(","a","d","d","r","e","s","s",",","u","i","n","t","2","5","6",")">>)>>],
     [json |-> TRUE, results |-> <<Some(<<>>)>>],
     [json |-> TRUE, results |-> <<Some(Signatures[SWAP_SELECTOR]),
                                   Some(Signatures[APPROVE_SELECTOR])>>],
     [json |-> TRUE, results |-> <<None>>],
     [json |-> TRUE, results |-> <<>>],
     [json |-> FALSE, results |-> <<>>]}

CallSigText ==
    \E sig4 \in Sig4Args, fails \in FailCounts, body \in AnyFourByteBody :
        LET s == sig_text(sig4, SIG_CACHE, fails, body) IN
        /\ s.looked => CountOf(lookups, s.key) < MaxLookups
        /\ SIG_CACHE' = s.cache
        /\ lookups' = Lookups(s)
        /\ returned' = Returned(s)
        /\ fn' = "sig_text"
        /\ args' = sig4
        /\ ret' = [raised |-> s.raised, val |-> s.ret, looked |-> s.looked]
        /\ UNCHANGED pipeline_vars

SpecSig == Init /\ [][CallSigText]_vars

(***************************************************************************)
(* Direct calls of the pure functions                                      *)
(***************************************************************************)
call_frame ==
    <<chain_i, txs, tok, contracts, actions, tx_i, chain_data, chain_results, exc,
      SIG_CACHE, lookups, returned, fn, args>>

MaxLogs == 5

MaxLimit == 3

MaxActs == 3

MethodTexts ==
    {None, Some(<<>>),
     Some(<<"a","p","p","r","o","v","e","(","a","d","d","r","e","s","s",",","u","i","n","t","2","5","6",")">>), Some(<<"A","p","p","r","o","v","e","(">>), Some(<<"a","p","p","r","o","v","e">>),
     Some(<<"s","w","a","p","A","n","d","A","p","p","r","o","v","e","(","a","d","d","r","e","s","s",")">>), Some(<<"s","w","a","p","(","u","i","n","t","2","5","6",")">>), Some(<<"d","e","p","o","s","i","t","A","n","d","S","w","a","p","(",")">>),
     Some(<<"d","e","p","o","s","i","t","(",")">>), Some(<<"s","u","p","p","l","y","(","u","i","n","t","2","5","6",")">>), Some(<<"a","d","d","L","i","q","u","i","d","i","t","y","(",")">>),
     Some(<<"w","i","t","h","d","r","a","w","D","e","p","o","s","i","t","(",")">>), Some(<<"w","i","t","h","d","r","a","w","(","u","i","n","t","2","5","6",")">>), Some(<<"r","e","m","o","v","e","L","i","q","u","i","d","i","t","y","(",")">>),
     Some(<<"s","u","p","p","l","y","A","n","d","B","o","r","r","o","w","(","u","i","n","t","2","5","6",")">>), Some(<<"b","o","r","r","o","w","(","u","i","n","t","2","5","6",")">>), Some(<<"b","o","r","r","o","w">>),
     Some(<<"r","e","p","a","y","B","o","r","r","o","w","(","u","i","n","t","2","5","6",")">>), Some(<<"r","e","p","a","y","(","u","i","n","t","2","5","6",")">>), Some(<<"r","e","p","a","y">>),
     Some(<<"t","r","a","n","s","f","e","r","(","a","d","d","r","e","s","s",",","u","i","n","t","2","5","6",")">>)}

WeiValues == {<<"0">>, <<"1">>, <<"1","0","0","0","0","0","0","0","0","0","0","0","0","0","0","0","0","0","0">>}

GuessActionArgs == [method_text : MethodTexts, eth_value_wei : WeiValues]

CallGuessAction ==
    /\ pc = "call"
    /\ fn = "guess_action"
    /\ ret' = guess_action(args.method_text, args.eth_value_wei)
    /\ pc' = "returned"
    /\ UNCHANGED call_frame

\* the contractAddress of a transfer event: an address in either casing, or
\* none
LogPool ==
    {[contractAddress |-> Some(Lower(USDC))], [contractAddress |-> Some(USDC)],
     [contractAddress |-> Some(Lower(DAI))],
     [contractAddress |-> Some(Lower(UNISWAP_V2_ROUTER))],
     [contractAddress |-> None]}

DiscoverArgs == [logs : SeqsUpTo(LogPool, MaxLogs), limit : 0..MaxLimit]

CallDiscover ==
    /\ pc = "call"
    /\ fn = "discover_token_contracts"
    /\ ret' = discover_token_contracts(args.logs, args.limit)
    /\ pc' = "returned"
    /\ UNCHANGED call_frame

\* actions as dicts of any shape calculate_features reads
ActionPool ==
    {[type |-> "unknown", method |-> None, protocol |-> None],
     [type |-> "contract_call", method |-> None, protocol |-> Some(<<>>)],
     [type |-> "contract_call", method |-> Some(<<"t","r","a","n","s","f","e","r","(","a","d","d","r","e","s","s",",","u","i","n","t","2","5","6",")">>),
      protocol |-> Some(<<"B","i","s","w","a","p","R","o","u","t","e","r">>)],
     [type |-> "approve", method |-> Some(<<"a","p","p","r","o","v","e","(","a","d","d","r","e","s","s",",","u","i","n","t","2","5","6",")">>), protocol |-> None],
     [type |-> "swap", method |-> Some(<<"s","w","a","p","(","u","i","n","t","2","5","6",")">>),
      protocol |-> Some(<<"U","n","i","s","w","a","p","V","2","R","o","u","t","e","r","0","2">>)],
     [type |-> "swap", method |-> Some(<<"s","w","a","p","(","u","i","n","t","2","5","6",")">>), protocol |-> Some(<<"B","i","s","w","a","p","R","o","u","t","e","r">>)]}

FeaturesArgs == SeqsUpTo(ActionPool, MaxActs)

CallCalculateFeatures ==
    /\ pc = "call"
    /\ fn = "calculate_features"
    /\ ret' = calculate_features(args)
    /\ pc' = "returned"
    /\ UNCHANGED call_frame

NextPure == CallGuessAction \/ CallDiscover \/ CallCalculateFeatures

\* the function and its arguments are drawn at the start; the call applies it
InitPure ==
    /\ pc = "call"
    /\ chain_i = 1
    /\ txs = <<>>
    /\ tok = <<>>
    /\ contracts = <<>>
    /\ actions = <<>>
    /\ tx_i = 0
    /\ chain_data = empty_chain_data("")
    /\ chain_results = <<>>
    /\ exc = ""
    /\ SIG_CACHE = <<>>
    /\ lookups = <<>>
    /\ returned = <<>>
    /\ \/ fn = "guess_action" /\ args \in GuessActionArgs
       \/ fn = "discover_token_contracts" /\ args \in DiscoverArgs
       \/ fn = "calculate_features" /\ args \in FeaturesArgs
    /\ ret = <<>>

SpecPure == InitPure /\ [][NextPure]_vars

(***************************************************************************)
(* Direct calls of process_evm_transactions: any window of a transaction   *)
(* history, on either chain's registry, the signature registry answering   *)
(* anything                                                                *)
(***************************************************************************)
MaxCallTxs == 2

UNISWAP_V2_ROUTER_UPPER == <<"0","x","7","A","2","5","0","D","5","6","3","0","B","4","C","F","5","3","9","7","3","9","D","F","2","C","5","D","A","C","B","4","C","6","5","9","F","2","4","8","8","D">>

\* the history: `to` in several casings, registered on one chain or on none,
\* no address, empty and absent; input with a selector, too short for one,
\* "0x", empty and absent
TX_FEED ==
    <<[hash |-> Some(<<"0","x","0","1">>), to |-> Some(Lower(UNISWAP_V2_ROUTER)), value |-> Some(<<"0">>),
       input |-> Some(<<"0","x","0","2","2","c","0","d","9","f","0","0","0","0">>)],
      [hash |-> Some(<<"0","x","0","2">>), to |-> Some(UNISWAP_V2_ROUTER),
       value |-> Some(<<"1","0","0","0","0","0","0","0","0","0","0","0","0","0","0","0","0","0","0">>), input |-> Some(<<"0","x","0","9","5","E","A","7","B","3">>)],
      [hash |-> Some(<<"0","x","0","3">>), to |-> Some(Lower(UNISWAP_V2_ROUTER)),
       value |-> Some(<<"1","0","0","0","0","0","0","0","0","0","0","0","0","0","0","0","0","0","0">>), input |-> Some(<<"0","x","0","9","5","e">>)],
      [hash |-> Some(<<"0","x","0","4">>), to |-> Some(Lower(PANCAKE_V2_ROUTER)), value |-> Some(<<"0">>),
       input |-> Some(<<"0","x","0","2","2","c","0","d","9","f">>)],
      [hash |-> Some(<<"0","x","0","5">>), to |-> Some(<<>>), value |-> Some(<<"1","0","0","0","0","0","0","0","0","0","0","0","0","0","0","0","0","0","0">>),
       input |-> Some(<<"0","x">>)],
      [hash |-> Some(<<"0","x","0","6">>), to |-> None, value |-> None, input |-> None],
      [hash |-> Some(<<"0","x","0","7">>), to |-> Some(NOT_AN_ADDRESS), value |-> Some(<<"0">>),
       input |-> Some(<<>>)],
      [hash |-> Some(<<"0","x","0","8">>), to |-> Some(Lower(USDC)), value |-> Some(<<"0">>),
       input |-> Some(<<"0","x","0","9","5","e","a","7","b","3">>)],
      [hash |-> Some(<<"0","x","0","9">>), to |-> Some(UNISWAP_V2_ROUTER_UPPER), value |-> Some(<<"0">>),
       input |-> Some(<<"0","x","0","2","2","C","0","D","9","F">>)]>>

\* the runs of at most n consecutive transactions of feed
Windows(feed, n) ==
    UNION {{SubSeq(feed, i, j) : j \in (i - 1)..Min(Len(feed), i + n - 1)} :
              i \in 1..Len(feed)}

AnyRegistryAnswers(sig4, cache) ==
    IF Truthy(sig4) /\ Len(sig4.v) >= 10 /\ cache_key(sig4) \notin DOMAIN cache
    THEN [fails : FailCounts, body : AnyFourByteBody]
    ELSE {[fails |-> 0, body |-> [json |-> FALSE, results |-> <<>>]]}

\* process_evm_transactions is called with a window of the history
InitTx ==
    /\ pc = "process"
    /\ chain_i \in 1..Len(chains_to_analyze)
    /\ txs \in Windows(TX_FEED, MaxCallTxs)
    /\ tok = <<>>
    /\ contracts = <<>>
    /\ actions = <<>>
    /\ tx_i = 0
    /\ chain_data = empty_chain_data(chains_to_analyze[chain_i])
    /\ chain_results = <<>>
    /\ exc = ""
    /\ SIG_CACHE = <<>>
    /\ lookups = <<>>
    /\ returned = <<>>
    /\ fn = "process_evm_transactions"
    /\ args = <<>>
    /\ ret = <<>>

\* lines 522-561: the next transaction of the loop
CallProcessTx ==
    /\ pc = "process"
    /\ tx_i < Len(txs)
    /\ LET t == txs[tx_i + 1] IN
       \E q \in AnyRegistryAnswers(sig4_of(OrElse(t.input, <<"0","x">>)), SIG_CACHE) :
         LET r == process_tx(t, tok, CHK, protocols_of(chains_to_analyze[chain_i]),
                             SIG_CACHE, q.fails, q.body)
         IN  /\ SIG_CACHE' = r.sig.cache
             /\ lookups' = Lookups(r.sig)
             /\ returned' = Returned(r.sig)
             /\ IF r.raised # ""
                THEN /\ pc' = "aborted" /\ exc' = r.raised
                     /\ actions' = actions /\ tx_i' = tx_i
                ELSE /\ pc' = pc /\ exc' = exc
                     /\ actions' = Append(actions, r.action) /\ tx_i' = tx_i + 1
    /\ UNCHANGED <<chain_i, txs, tok, contracts, chain_data, chain_results, call_vars>>

SpecTx == InitTx /\ [][CallProcessTx]_vars

(***************************************************************************)
(* Properties                                                              *)
(***************************************************************************)
EqualsIgnoringCase(a, b) == Lower(a) = Lower(b)

\* the events of the token feed that share transaction t's hash and name the
\* holder in `field`
MatchingEvents(t, field) ==
    {j \in 1..Len(tok) :
        /\ EqualsIgnoringCase(OrElse(tok[j].hash, <<>>), OrElse(t.hash, <<>>))
        /\ EqualsIgnoringCase(OrElse(tok[j][field], <<>>), CHK)}

\* C1: every action's erc20_in_cnt is the number of events of tok with the
\* transaction's hash (case-insensitively) whose "to" is the holder
\* (case-insensitively), and its erc20_out_cnt the number of those whose "from"
\* is the holder; an event naming the holder in both is counted in both.
C1_TransferCounts ==
    pc = "process" =>
        \A i \in 1..Len(actions) :
            /\ actions[i].erc20_in_cnt = Cardinality(MatchingEvents(txs[i], "to"))
            /\ actions[i].erc20_out_cnt = Cardinality(MatchingEvents(txs[i], "from"))

\* a transaction whose hash differs in case from its events' hashes, with an
\* incoming, an outgoing and a self-transfer event: two in, two out
C1_Witness ==
    /\ pc = "process"
    /\ \E i \in 1..Len(actions) :
        /\ txs[i] = TX_APPROVE
        /\ \E j \in 1..Len(tok) : tok[j] = EV_SELF
        /\ actions[i].erc20_in_cnt = 2
        /\ actions[i].erc20_out_cnt = 2

\* the rules of the classification, in order
RULES ==
    <<[needles |-> {<<"a","p","p","r","o","v","e","(">>}, kind |-> "approve"],
      [needles |-> {<<"s","w","a","p">>}, kind |-> "swap"],
      [needles |-> {<<"d","e","p","o","s","i","t">>, <<"s","u","p","p","l","y">>, <<"a","d","d","l","i","q","u","i","d","i","t","y">>}, kind |-> "deposit"],
      [needles |-> {<<"w","i","t","h","d","r","a","w">>, <<"r","e","m","o","v","e","l","i","q","u","i","d","i","t","y">>}, kind |-> "withdraw"],
      [needles |-> {<<"b","o","r","r","o","w","(">>}, kind |-> "borrow"],
      [needles |-> {<<"r","e","p","a","y","(">>}, kind |-> "repay"]>>

FirstMatch(low) ==
    LET hits == {i \in 1..Len(RULES) : \E n \in RULES[i].needles : Contains(n, low)} IN
    IF hits = {} THEN "contract_call"
    ELSE RULES[CHOOSE i \in hits : \A j \in hits : i <= j].kind

Classified(present, m, v) ==
    IF present THEN FirstMatch(Lower(m.v))
    ELSE IF v # <<"0">> THEN "eth_transfer" ELSE "unknown"

\* C2: guess_action applies the rules in the listed order, first match wins,
\* on the lower-cased method text, whenever the method text is non-empty; with
\* no method text or an empty one the value decides: eth_transfer when it is
\* positive, unknown when it is zero.
C2_GuessActionRules ==
    (pc = "returned" /\ fn = "guess_action") =>
        ret = Classified(args.method_text.some /\ args.method_text.v # <<>>,
                         args.method_text, args.eth_value_wei)

\* an approve with a nonzero value is approve
C2_Witness ==
    /\ pc = "returned"
    /\ fn = "guess_action"
    /\ args.method_text = Some(<<"a","p","p","r","o","v","e","(","a","d","d","r","e","s","s",",","u","i","n","t","2","5","6",")">>)
    /\ args.eth_value_wei = <<"1","0","0","0","0","0","0","0","0","0","0","0","0","0","0","0","0","0","0">>
    /\ ret = "approve"

\* C2 as stated: every present method text, the empty one included, is
\* classified by the rules and never by the value.
C2_AnyPresentText ==
    (pc = "returned" /\ fn = "guess_action") =>
        ret = Classified(args.method_text.some, args.method_text, args.eth_value_wei)

NoHashTwice(acts) ==
    \A i, j \in 1..Len(acts) : i < j => acts[i].hash # acts[j].hash

\* C3: no transaction hash appears twice in the action list of a chain, nor
\* in the actions_lastN of its ChainRecord.
C3_NoHashTwice == NoHashTwice(actions) /\ NoHashTwice(chain_data.actions_lastN)

\* C4: a selector is looked up in the registry at most once, and sig_text
\* returns one value for it, whatever the outcome of the first lookup.
C4_OneLookupPerSelector ==
    /\ \A k \in DOMAIN lookups : lookups[k] <= 1
    /\ \A k \in DOMAIN returned : Cardinality(returned[k]) <= 1

\* C5: an entry of the selector cache, a None one included, is never removed
\* or changed by a later step, and every key is a lower-cased selector of
\* ten characters.
C5_CacheOnlyGrows ==
    [][/\ \A k \in DOMAIN SIG_CACHE :
            k \in DOMAIN SIG_CACHE' /\ SIG_CACHE'[k] = SIG_CACHE[k]
       /\ \A k \in DOMAIN SIG_CACHE' : Len(k) = 10 /\ k = Lower(k)]_vars

\* a call answered from a None entry, for a selector given in another casing,
\* with a second selector cached
C5_Witness ==
    /\ fn = "sig_text"
    /\ ~ret.looked
    /\ args.some
    /\ Len(args.v) > 10
    /\ args.v # Lower(args.v)
    /\ cache_key(args) \in DOMAIN SIG_CACHE
    /\ SIG_CACHE[cache_key(args)] = None
    /\ Cardinality(DOMAIN SIG_CACHE) = 2

\* C6: a fetch that fails after its retries never aborts the run.
C6_FetchFailureNeverAborts == ~(pc = "aborted" /\ exc = "RuntimeError")

\* C7: an address that cannot be canonicalized never aborts the run.
C7_InvalidAddressNeverFatal == ~(pc = "aborted" /\ exc = "ValueError")

RECURSIVE FirstSeen(_)
\* s without the later occurrences of its elements
FirstSeen(s) ==
    IF s = <<>> THEN <<>>
    ELSE LET front == FirstSeen(SubSeq(s, 1, Len(s) - 1)) IN
         IF \E i \in 1..Len(front) : front[i] = s[Len(s)]
         THEN front ELSE Append(front, s[Len(s)])

\* the canonical contract addresses of the events that have one
CanonicalContracts(logs) ==
    LET having == SelectSeq(logs, LAMBDA ev : Truthy(ev.contractAddress)) IN
    [i \in 1..Len(having) |-> to_checksum_address(having[i].contractAddress.v).val]

\* C8: discover_token_contracts returns the first `limit` distinct canonical
\* contract addresses of the log, in first-seen order, for every limit >= 0.
C8_FirstLimitContracts ==
    (pc = "returned" /\ fn = "discover_token_contracts") =>
        LET all == FirstSeen(CanonicalContracts(args.logs)) IN
        /\ ~ret.raised
        /\ ret.val = SubSeq(all, 1, Min(Len(all), args.limit))

\* C9: actions_lastN of the ChainRecord is the classified list, one action
\* per fetched transaction in the feed's order, cut to its first
\* MAX_TX_PER_CHAIN actions.
C9_TruncatedPrefix ==
    [][(pc = "process" /\ pc' = "main") =>
          LET lastN == chain_data'.actions_lastN IN
          /\ Len(actions) = Len(txs)
          /\ \A i \in 1..Len(txs) : actions[i].hash = txs[i].hash
          /\ Len(lastN) = Min(Len(txs), MAX_TX_PER_CHAIN)
          /\ \A i \in 1..Len(lastN) : lastN[i] = actions[i]]_vars

\* a record whose list was cut: MAX_TX_PER_CHAIN different actions, and
\* features that are not those of the cut list
C9_Witness ==
    /\ pc = "main"
    /\ Len(chain_data.actions_lastN) = MAX_TX_PER_CHAIN
    /\ chain_data.actions_lastN[1].hash # chain_data.actions_lastN[2].hash
    /\ chain_data.features_min # calculate_features(chain_data.actions_lastN)

\* C10: each count of calculate_features is at most the number of actions,
\* and unique_protocols is the number of distinct non-empty protocol values.
C10_FeatureCounts ==
    (pc = "returned" /\ fn = "calculate_features") =>
        /\ \A c \in {"unknown_calls", "approvals", "swaps", "unique_protocols"} :
              ret[c] <= Len(args)
        /\ ret.unique_protocols =
              Cardinality({p \in {args[i].protocol : i \in 1..Len(args)} :
                              p # None /\ p # Some(<<>>)})

\* three actions: one without a protocol, two sharing one protocol
C10_Witness ==
    /\ pc = "returned"
    /\ fn = "calculate_features"
    /\ Len(args) = 3
    /\ \E i \in 1..3 : args[i].protocol = None
    /\ \E i, j \in 1..3 : i # j /\ args[i].protocol = args[j].protocol
                            /\ Truthy(args[i].protocol)
    /\ ret.unique_protocols = 1

\* C11: no holding of a ChainRecord has a balance of zero, a holding whose
\* positive raw balance comes out as 0 at 8 decimal places included.
C11_NoZeroBalanceHolding ==
    \A i \in 1..Len(chain_data.holdings_top10) :
        chain_data.holdings_top10[i].balance # <<"0">>

\* C14: the unknown_calls of a ChainRecord's features_min is the unknown-call
\* count of the record's own actions_lastN, and no count of features_min
\* exceeds the length of actions_lastN.
C14_FeaturesOfTruncatedList ==
    LET lastN == chain_data.actions_lastN IN
    /\ chain_data.features_min.unknown_calls = calculate_features(lastN).unknown_calls
    /\ \A c \in {"unknown_calls", "approvals", "swaps", "unique_protocols"} :
          chain_data.features_min[c] <= Len(lastN)

\* input data that holds no selector: absent, empty, "0x", or too short
NoSelector(inp) == ~inp.some \/ inp.v = <<"0","x">> \/ Len(inp.v) < 10

\* C12: a transaction whose input data is absent, "0x" or shorter than a
\* selector gets an action without method text, with no signature lookup and
\* the selector cache unchanged; with a value of 10^18 its kind is
\* eth_transfer.
C12_NoSelectorNoLookup ==
    [][(pc = "process" /\ tx_i < Len(txs) /\ NoSelector(txs[tx_i + 1].input)) =>
          /\ pc' = "process"
          /\ tx_i' = tx_i + 1
          /\ Len(actions') = tx_i'
          /\ actions'[tx_i'].method = None
          /\ lookups' = lookups
          /\ SIG_CACHE' = SIG_CACHE
          /\ txs[tx_i + 1].value = Some(<<"1","0","0","0","0","0","0","0","0","0","0","0","0","0","0","0","0","0","0">>) =>
                actions'[tx_i'].type = "eth_transfer"]_vars

\* a too-short input with a value of 10^18, processed after a transaction
\* whose selector was looked up and cached
C12_Witness ==
    /\ pc = "process"
    /\ tx_i = 2
    /\ txs[2].input = Some(<<"0","x","0","9","5","e">>)
    /\ actions[2].method = None
    /\ actions[2].type = "eth_transfer"
    /\ DOMAIN SIG_CACHE = {APPROVE_SELECTOR}
    /\ lookups[APPROVE_SELECTOR] = 1

\* the registry of the chain being processed
Registry == protocols_of(chains_to_analyze[chain_i])

\* the registry keys that spell address `to`, in any letter case
KeysFor(to) == {k \in DOMAIN Registry : EqualsIgnoringCase(k, to)}

MethodKinds == {"contract_call", "approve", "swap", "deposit", "withdraw", "borrow", "repay"}

\* C15: an action's kind is one of the method kinds only if its method text
\* is non-empty, and unknown or eth_transfer only if it is absent or empty;
\* so unknown_calls over the actions is the number of actions of kind unknown.
C15_KindFollowsMethod ==
    /\ \A i \in 1..Len(actions) :
          /\ actions[i].type \in MethodKinds => Truthy(actions[i].method)
          /\ actions[i].type \in {"unknown", "eth_transfer"} => ~Truthy(actions[i].method)
    /\ calculate_features(actions).unknown_calls =
          Cardinality({i \in 1..Len(actions) : actions[i].type = "unknown"})

\* an action whose method text is the empty string, of kind unknown, after
\* a contract_call
C15_Witness ==
    /\ Len(actions) = 2
    /\ actions[1].type = "contract_call"
    /\ actions[2].method = Some(<<>>)
    /\ actions[2].type = "unknown"

====
